---- MODULE Spec2Model ----
(***************************************************************************)
(* Model of local-sonarqube-setup/scripts/fetch_report.py: the report      *)
(* fetcher's main() as a linear state machine (parse arguments, three      *)
(* fetches, aggregation, five renderers, exit) together with the pure      *)
(* helpers it calls (extract_metric_value, get_code_context, the           *)
(* renderers' formatting).                                                 *)
(*                                                                         *)
(* Conventions.                                                            *)
(*  - A Python str that the code manipulates (replace, rstrip, HTML        *)
(*    escaping, float parsing) is a sequence of one-character strings.     *)
(*    Identifiers that are only compared (severity names, metric names,    *)
(*    step names) are TLA+ strings.                                        *)
(*  - A Python dict / JSON object is a function whose DOMAIN is the set of *)
(*    keys present; Get(d, k, default) is dict.get.                        *)
(*  - An Optional[int] is a sequence of length 0 (None) or 1.              *)
(*  - A float is a record [nan, tenths]: a NaN flag and the value in       *)
(*    tenths (one decimal digit is all the renderers print).               *)
(***************************************************************************)
EXTENDS Integers, Sequences, FiniteSets, TLC

VARIABLES
    pc,               \* position of main(): the step about to run, or "exited"
    exit_status,      \* process exit status, NotExited while running
    steps,            \* history: the steps that have started, in order
    requests_issued,  \* history: the HTTP GETs sent, in order
    args_project,     \* --project as given on the command line (Optional str)
    env_project_key,  \* SONAR_PROJECT_KEY in the environment (Optional str)
    project_key,      \* main's local project_key (Optional str)
    fs,               \* the local filesystem read by get_code_context
    qg_data,          \* main's local qg_data (Optional JSON object)
    measures_data,    \* main's local measures_data (Optional JSON object)
    issues_data,      \* main's local issues_data (Optional JSON object)
    report_data,      \* main's local report_data (Optional Report)
    json_file,        \* the JSON output file
    html_file,        \* the HTML output file
    console,          \* sections printed to standard output, in order
    call,             \* unit harness: the pending call of a pure helper
    ret               \* unit harness: what that call returned

vars == <<pc, exit_status, steps, requests_issued, args_project, env_project_key,
          project_key, fs, qg_data, measures_data, issues_data, report_data,
          json_file, html_file, console, call, ret>>

-----------------------------------------------------------------------------
(* Bounds of the model *)

\* longest issue list the issues fetch returns
MaxIssues == 2
\* longest file (in lines) the context loader is applied to on its own
MaxFileLines == 10
\* largest target line the context loader is applied to on its own
MaxLine == 11

-----------------------------------------------------------------------------
(* Python values *)

None == <<>>
Some(x) == <<x>>
IsNone(o) == Len(o) = 0
EmptyDict == [k \in {} |-> <<>>]

\* dict.get(k, default)
Get(d, k, default) == IF k \in DOMAIN d THEN d[k] ELSE default

Max(a, b) == IF a >= b THEN a ELSE b
Min(a, b) == IF a <= b THEN a ELSE b

\* the sequences over S of length at most n
SeqsUpTo(S, n) == UNION {[1..k -> S] : k \in 0..n}

NotExited == 0 - 1

\* floats: value in tenths, or NaN
Float(t) == [nan |-> FALSE, tenths |-> t]
NaN == [nan |-> TRUE, tenths |-> 0]

\* JSON values a measure's "value" may hold
JStr(s) == [t |-> "str", s |-> s, n |-> 0]
JNum(n) == [t |-> "num", s |-> <<>>, n |-> n]
JList == [t |-> "list", s |-> <<>>, n |-> 0]

-----------------------------------------------------------------------------
(* float(), int() and truthiness, as extract_metric_value and main use them *)

Digits == {"0", "1", "2", "3", "4", "5", "6", "7", "8", "9"}

DigitVal(c) ==
    CASE c = "0" -> 0 [] c = "1" -> 1 [] c = "2" -> 2 [] c = "3" -> 3
      [] c = "4" -> 4 [] c = "5" -> 5 [] c = "6" -> 6 [] c = "7" -> 7
      [] c = "8" -> 8 [] c = "9" -> 9

AllDigits(s) == \A i \in 1..Len(s) : s[i] \in Digits

RECURSIVE DigitsVal(_)
DigitsVal(s) ==
    IF Len(s) = 0 THEN 0
    ELSE 10 * DigitsVal(SubSeq(s, 1, Len(s) - 1)) + DigitVal(s[Len(s)])

Raised(e) == [exc |-> e, val |-> Float(0)]
Returned(v) == [exc |-> "", val |-> v]

\* float(s) for a str: the literal nan, or decimal digits with an optional
\* point; anything else raises ValueError.  The value is kept to one
\* fractional digit.
FloatOfStr(s) ==
    IF s = <<"n", "a", "n">> THEN Returned(NaN)
    ELSE IF Len(s) > 0 /\ AllDigits(s) THEN Returned(Float(10 * DigitsVal(s)))
    ELSE IF \E k \in 1..Len(s) :
                /\ s[k] = "."
                /\ AllDigits(SubSeq(s, 1, k - 1))
                /\ AllDigits(SubSeq(s, k + 1, Len(s)))
                /\ Len(s) > 1
         THEN LET k == CHOOSE k \in 1..Len(s) : s[k] = "."
                  whole == SubSeq(s, 1, k - 1)
                  frac == SubSeq(s, k + 1, Len(s))
              IN  Returned(Float(10 * DigitsVal(whole)
                                 + (IF Len(frac) > 0 THEN DigitVal(frac[1]) ELSE 0)))
    ELSE Raised("ValueError")

\* float(value) for a JSON value: a list raises TypeError
FloatOf(v) ==
    CASE v.t = "str" -> FloatOfStr(v.s)
      [] v.t = "num" -> Returned(Float(10 * v.n))
      [] v.t = "list" -> Raised("TypeError")

\* bool(value) for a JSON value (the list values of the model are non-empty)
Truthy(v) ==
    CASE v.t = "str" -> Len(v.s) > 0
      [] v.t = "num" -> v.n # 0
      [] v.t = "list" -> TRUE

\* int(f) for a float: truncation; int(nan) raises ValueError
IntOf(f) ==
    IF f.nan THEN [exc |-> "ValueError", val |-> 0]
    ELSE [exc |-> "", val |-> f.tenths \div 10]

-----------------------------------------------------------------------------
(* extract_metric_value *)

\* mutant: the except clause does not list ValueError
ExtractCaught_NoValueError == {"KeyError", "TypeError"}

\* the exceptions the except clause of extract_metric_value swallows
ExtractCaught == {"KeyError", "ValueError", "TypeError"}

\* what the function returns when the loop finds nothing or an exception
\* was swallowed
ExtractDefault == Float(0)

\* the body of the for loop from entry i on: the first entry whose "metric"
\* is metric_key decides.  The result is [exc, val]: exc is the exception that
\* leaves the loop ("" when a value is returned)
RECURSIVE ScanMeasures(_, _, _)
ScanMeasures(list, i, metric_key) ==
    IF i > Len(list) THEN Returned(ExtractDefault)
    ELSE IF "metric" \in DOMAIN list[i] /\ list[i]["metric"] = metric_key
         THEN IF "value" \in DOMAIN list[i] /\ Truthy(list[i]["value"])
              THEN FloatOf(list[i]["value"])
              ELSE Returned(Float(0))
         ELSE ScanMeasures(list, i + 1, metric_key)

extract_metric_value(measures, metric_key) ==
    LET component == Get(measures, "component", EmptyDict)
        list == Get(component, "measures", <<>>)
        r == ScanMeasures(list, 1, metric_key)
    IN  IF r.exc \in ExtractCaught THEN Returned(ExtractDefault) ELSE r

-----------------------------------------------------------------------------
(* get_code_context *)

\* default of the context_lines parameter
ContextLines == 3

\* a file of the local filesystem
MissingFile == [exists |-> FALSE, readable |-> FALSE, lines |-> <<>>]
UnreadableFile == [exists |-> TRUE, readable |-> FALSE, lines |-> <<>>]
ReadableFile(lines) == [exists |-> TRUE, readable |-> TRUE, lines |-> lines]

\* os.path.exists / open on one directory tree
Lookup(tree, path) == IF path \in DOMAIN tree THEN tree[path] ELSE MissingFile

\* line.rstrip('\n')
RECURSIVE RStripNewline(_)
RStripNewline(s) ==
    IF Len(s) > 0 /\ s[Len(s)] = "\n"
    THEN RStripNewline(SubSeq(s, 1, Len(s) - 1))
    ELSE s

\* mutant: the error descriptor does not name the path
FileNotFound_NoPath(file_path) == [error |-> <<"File not found">>]

FileNotFound(file_path) == [error |-> <<"File not found: ">> \o file_path]
ReadError(file_path) == [error |-> <<"[Errno 13] Permission denied: ">> \o file_path]

\* the window of lines[start_line .. end_line-1] (0-based), as the loop builds it
ContextWindow(lines, start_line, end_line, line_number) ==
    [j \in 1..Max(0, end_line - start_line) |->
        [line |-> start_line + j,
         code |-> RStripNewline(lines[start_line + j]),
         is_issue_line |-> (start_line + j) = line_number]]

\* mutant: the window starts one line late (the 0-based start index is
\* computed without the - 1)
get_code_context_StartsLate(fsys, file_path, line_number, context_lines) ==
    LET in_fixture == Lookup(fsys.fixture, file_path)
        in_cwd == Lookup(fsys.cwd, file_path)
    IN  IF ~in_fixture.exists /\ ~in_cwd.exists THEN FileNotFound(file_path)
        ELSE LET f == IF in_fixture.exists THEN in_fixture ELSE in_cwd
             IN  IF ~f.readable THEN ReadError(file_path)
                 ELSE LET lines == f.lines
                          start_line == Max(0, line_number - context_lines)
                          end_line == Min(Len(lines), line_number + context_lines)
                      IN  [file |-> file_path,
                           issue_line |-> line_number,
                           context |-> ContextWindow(lines, start_line, end_line,
                                                     line_number),
                           start_line |-> start_line + 1,
                           end_line |-> end_line]

get_code_context(fsys, file_path, line_number, context_lines) ==
    LET in_fixture == Lookup(fsys.fixture, file_path)
        in_cwd == Lookup(fsys.cwd, file_path)
    IN  IF ~in_fixture.exists /\ ~in_cwd.exists THEN FileNotFound(file_path)
        ELSE LET f == IF in_fixture.exists THEN in_fixture ELSE in_cwd
             IN  IF ~f.readable THEN ReadError(file_path)
                 ELSE LET lines == f.lines
                          start_line == Max(0, line_number - context_lines - 1)
                          end_line == Min(Len(lines), line_number + context_lines)
                      IN  [file |-> file_path,
                           issue_line |-> line_number,
                           context |-> ContextWindow(lines, start_line, end_line,
                                                     line_number),
                           start_line |-> start_line + 1,
                           end_line |-> end_line]

-----------------------------------------------------------------------------
(* The Aggregator: the part of main() between the fetches and the renderers *)

\* str.replace(old, new) for a non-empty old: every non-overlapping
\* occurrence, left to right
RECURSIVE ReplaceAll(_, _, _)
ReplaceAll(s, old, new) ==
    IF Len(s) < Len(old) THEN s
    ELSE IF SubSeq(s, 1, Len(old)) = old
         THEN new \o ReplaceAll(SubSeq(s, Len(old) + 1, Len(s)), old, new)
         ELSE <<s[1]>> \o ReplaceAll(Tail(s), old, new)

\* issue.get("component", "").replace(f"{project_key}:", "")
StripProjectKey(raw_component, key) == ReplaceAll(raw_component, key \o <<":">>, <<>>)

\* the measures dict; exc is the exception that escapes to main's handlers
ProcessMeasures(data) ==
    LET coverage == extract_metric_value(data, "coverage")
        bugs == extract_metric_value(data, "bugs")
        vulnerabilities == extract_metric_value(data, "vulnerabilities")
        code_smells == extract_metric_value(data, "code_smells")
        duplicated == extract_metric_value(data, "duplicated_lines_density")
        raised == {coverage.exc, bugs.exc, vulnerabilities.exc, code_smells.exc,
                   duplicated.exc, IntOf(bugs.val).exc,
                   IntOf(vulnerabilities.val).exc, IntOf(code_smells.val).exc} \ {""}
    IN  [exc |-> IF raised = {} THEN "" ELSE CHOOSE e \in raised : TRUE,
         val |-> [coverage |-> coverage.val,
                  bugs |-> IntOf(bugs.val).val,
                  vulnerabilities |-> IntOf(vulnerabilities.val).val,
                  code_smells |-> IntOf(code_smells.val).val,
                  duplicated_lines_density |-> duplicated.val]]

\* the severity an issue is counted and reported under
SeverityOf(issue) == Get(issue, "severity", "UNKNOWN")

\* mutant: a severity seen again is set to 1 instead of incremented
RECURSIVE CountSeverities_NoIncrement(_, _, _)
CountSeverities_NoIncrement(issues, i, counts) ==
    IF i > Len(issues) THEN counts
    ELSE LET severity == SeverityOf(issues[i])
         IN  CountSeverities_NoIncrement(issues, i + 1,
                 [s \in DOMAIN counts \cup {severity} |->
                     IF s = severity THEN 1 ELSE counts[s]])

\* severity_counts after the loop has seen issues[i..]
RECURSIVE CountSeverities(_, _, _)
CountSeverities(issues, i, counts) ==
    IF i > Len(issues) THEN counts
    ELSE LET severity == SeverityOf(issues[i])
         IN  CountSeverities(issues, i + 1,
                 [s \in DOMAIN counts \cup {severity} |->
                     IF s = severity THEN Get(counts, s, 0) + 1 ELSE counts[s]])

\* mutant: an issue the loader is not called for gets an error descriptor
CodeContextOf_ErrorWhenSkipped(fsys, component, line_number) ==
    IF ~IsNone(line_number) /\ line_number[1] # 0 /\ Len(component) > 0
    THEN get_code_context(fsys, component, line_number[1], ContextLines)
    ELSE [error |-> <<"No line number">>]

\* the codeContext of one issue: the loader is called only when both the line
\* number and the stripped component are truthy
CodeContextOf(fsys, component, line_number) ==
    IF ~IsNone(line_number) /\ line_number[1] # 0 /\ Len(component) > 0
    THEN get_code_context(fsys, component, line_number[1], ContextLines)
    ELSE EmptyDict

\* issue_detail for one raw issue (type, effort, textRange and tags are
\* copied through like key and rule and are left out)
IssueDetail(fsys, key, issue) ==
    LET component == StripProjectKey(Get(issue, "component", <<>>), key)
        line_number == IF "line" \in DOMAIN issue THEN Some(issue["line"]) ELSE None
    IN  [key |-> Get(issue, "key", "None"),
         rule |-> Get(issue, "rule", "None"),
         severity |-> SeverityOf(issue),
         component |-> component,
         line |-> line_number,
         message |-> Get(issue, "message", <<"None">>),
         codeContext |-> CodeContextOf(fsys, component, line_number)]

\* mutant: each record is inserted at the front of detailed_issues
DetailedIssues_Reversed(fsys, key, issues) ==
    [i \in 1..Len(issues) |-> IssueDetail(fsys, key, issues[Len(issues) + 1 - i])]

\* detailed_issues: one record per raw issue, appended in input order
DetailedIssues(fsys, key, issues) ==
    [i \in 1..Len(issues) |-> IssueDetail(fsys, key, issues[i])]

\* report_data (generated_at, a timestamp, is left out)
BuildReport(fsys, key, qg, measures, issues) ==
    LET raw == Get(issues, "issues", <<>>)
        project_status == Get(qg, "projectStatus", EmptyDict)
    IN  [project_key |-> key,
         quality_gate |->
             [status |-> Get(project_status, "status", "UNKNOWN"),
              conditions |-> Get(project_status, "conditions", <<>>)],
         measures |-> measures,
         issues |->
             [total |-> Get(issues, "total", 0),
              severity_counts |-> CountSeverities(raw, 1, EmptyDict),
              detailed |-> DetailedIssues(fsys, key, raw)]]

-----------------------------------------------------------------------------
(* The renderers *)

\* the severities the tables and summaries list, in their order
SeverityOrder == <<"BLOCKER", "CRITICAL", "MAJOR", "MINOR", "INFO">>

\* .replace('&', '&amp;').replace('<', '&lt;').replace('>', '&gt;')
HtmlEscape(s) ==
    ReplaceAll(ReplaceAll(ReplaceAll(s, <<"&">>, <<"&", "a", "m", "p", ";">>),
                          <<"<">>, <<"&", "l", "t", ";">>),
               <<">">>, <<"&", "g", "t", ";">>)

\* status_color of generate_html_report
StatusColor(status) ==
    CASE status = "OK" -> "#4CAF50"
      [] status = "ERROR" -> "#F44336"
      [] status = "WARN" -> "#FF9800"
      [] status = "NONE" -> "#9E9E9E"
      [] OTHER -> "#9E9E9E"

\* mutant: a status outside the table gets the glyph of NONE
StatusEmoji_DefaultsToNone(status) ==
    CASE status = "OK" -> "check"
      [] status = "ERROR" -> "cross"
      [] status = "WARN" -> "warning"
      [] OTHER -> "white_circle"

\* (the glyphs by name: check, cross, warning, white_circle, and question
\* for the default glyph, the question mark)
\* status_emoji of print_slack_summary
StatusEmoji(status) ==
    CASE status = "OK" -> "check"
      [] status = "ERROR" -> "cross"
      [] status = "WARN" -> "warning"
      [] status = "NONE" -> "white_circle"
      [] OTHER -> "question"

\* the test both detailed renderers make before showing a code block
HasCodeBlock(code_context) ==
    /\ DOMAIN code_context # {}
    /\ "context" \in DOMAIN code_context
    /\ ~("error" \in DOMAIN code_context /\ Len(code_context["error"]) > 0)

\* code_context.get('error') is truthy
HasError(code_context) ==
    "error" \in DOMAIN code_context /\ Len(code_context["error"]) > 0

\* the text generate_html_report embeds for an issue's message
HtmlMessage(message) == message

\* the <div class="code-block"> of one issue
HtmlCodeBlock(code_context) ==
    [j \in 1..Len(code_context["context"]) |->
        LET ctx_line == code_context["context"][j]
        IN  [line_num |-> ctx_line.line,
             code |-> HtmlEscape(ctx_line.code),
             line_class |-> IF ctx_line.is_issue_line THEN "issue-line" ELSE ""]]

\* the <div class="issue-detail"> of one issue
HtmlIssue(issue) ==
    [severity |-> issue.severity,
     file |-> issue.component,
     line |-> issue.line,
     message |-> HtmlMessage(issue.message),
     rule |-> issue.rule,
     code_block |-> IF HasCodeBlock(issue.codeContext)
                    THEN Some(HtmlCodeBlock(issue.codeContext))
                    ELSE None]

\* the document generate_html_report writes, by its data-bearing parts
HtmlDocument(data) ==
    [title |-> data.project_key,
     status |-> data.quality_gate.status,
     status_color |-> StatusColor(data.quality_gate.status),
     measures |-> data.measures,
     severity_table |->
         [i \in 1..Len(SeverityOrder) |->
             <<SeverityOrder[i], Get(data.issues.severity_counts, SeverityOrder[i], 0)>>],
     issues |-> [i \in 1..Len(data.issues.detailed) |->
                    HtmlIssue(data.issues.detailed[i])]]

\* mutant: the chat summary prints a line for every severity, zero or not
SlackSummary_ListsZeros(data) ==
    LET counts == data.issues.severity_counts
    IN  [section |-> "slack",
         status |-> data.quality_gate.status,
         glyph |-> StatusEmoji(data.quality_gate.status),
         measures |-> data.measures,
         severity_lines |->
             [i \in 1..Len(SeverityOrder) |->
                 <<SeverityOrder[i], Get(counts, SeverityOrder[i], 0)>>]]

\* the section print_slack_summary prints
SlackSummary(data) ==
    LET counts == data.issues.severity_counts
        NonZero(sev) == Get(counts, sev, 0) > 0
        listed == SelectSeq(SeverityOrder, NonZero)
    IN  [section |-> "slack",
         status |-> data.quality_gate.status,
         glyph |-> StatusEmoji(data.quality_gate.status),
         measures |-> data.measures,
         severity_lines |-> [i \in 1..Len(listed) |-> <<listed[i], counts[listed[i]]>>]]

\* the section print_email_summary prints
EmailSummary(data) ==
    LET counts == data.issues.severity_counts
    IN  [section |-> "email",
         status |-> data.quality_gate.status,
         project |-> data.project_key,
         measures |-> data.measures,
         severity_lines |->
             [i \in 1..Len(SeverityOrder) |->
                 <<SeverityOrder[i], Get(counts, SeverityOrder[i], 0)>>]]

\* what print_detailed_issues prints under one issue's header
ConsoleContext(code_context) ==
    IF HasCodeBlock(code_context)
    THEN [kind |-> "code",
          lines |-> [j \in 1..Len(code_context["context"]) |->
                        LET ctx_line == code_context["context"][j]
                        IN  [marker |-> ctx_line.is_issue_line,
                             line_num |-> ctx_line.line,
                             code |-> ctx_line.code]]]
    ELSE IF HasError(code_context)
         THEN [kind |-> "warning", lines |-> <<code_context["error"]>>]
         ELSE [kind |-> "none", lines |-> <<>>]

\* the sections print_detailed_issues prints: nothing for an empty list
DetailedListing(data) ==
    IF Len(data.issues.detailed) = 0 THEN <<>>
    ELSE <<[section |-> "detailed",
            issues |-> [i \in 1..Len(data.issues.detailed) |->
                LET issue == data.issues.detailed[i]
                IN  [severity |-> issue.severity,
                     file |-> issue.component,
                     line |-> issue.line,
                     rule |-> issue.rule,
                     message |-> issue.message,
                     context |-> ConsoleContext(issue.codeContext)]]]>>

-----------------------------------------------------------------------------
(* The inputs of a run: command line, environment, filesystem, responses *)

\* the key given with --project, and the one held by SONAR_PROJECT_KEY
FlagKey == <<"p">>
EnvKey == <<"q">>

ArgsProjectValues == {None, Some(<<>>), Some(FlagKey)}
EnvProjectKeyValues == {None, Some(EnvKey)}

\* a/b/c/u: the file names issues refer to
SourceText ==
    << <<"x", "\n">>, <<"<", "b", ">", "\n">>, <<"a", "&", "b", "\n">>,
       <<"y", "\n">>, <<"z">> >>

\* "a" and the unreadable "u" are under the fixture root, "b" only under the
\* working directory, "c" nowhere
RunFilesystem ==
    [fixture |-> (<<"a">> :> ReadableFile(SourceText)) @@ (<<"u">> :> UnreadableFile),
     cwd |-> (<<"b">> :> ReadableFile(SubSeq(SourceText, 1, 2)))]

QualityGateResponses ==
    {EmptyDict,
     [projectStatus |-> EmptyDict],
     [projectStatus |-> [status |-> "ERROR", conditions |-> <<"c1", "c2">>]]}

MeasureEntries ==
    {[metric |-> "coverage", value |-> JStr(<<"1", "2", ".", "5">>)],
     [metric |-> "coverage", value |-> JStr(<<>>)],
     [metric |-> "bugs", value |-> JStr(<<"7">>)],
     [metric |-> "bugs", value |-> JStr(<<"x">>)],
     [metric |-> "bugs", value |-> JStr(<<"n", "a", "n">>)]}

MeasuresResponses ==
    {EmptyDict,
     [component |-> EmptyDict],
     [component |-> [measures |-> <<[metric |-> "bugs", value |-> JList]>>]],
     [component |-> [measures |-> <<[metric |-> "coverage"],
                                    [metric |-> "bugs", value |-> JStr(<<"7">>)]>>]],
     [component |-> [measures |-> <<[metric |-> "coverage", value |-> JNum(0)],
                                    [value |-> JStr(<<"3">>)]>>]]}
    \cup {[component |-> [measures |-> <<>>]]}
    \cup {[component |-> [measures |-> <<a>>]] : a \in MeasureEntries}
    \cup {[component |-> [measures |-> <<a, b>>]] : a, b \in MeasureEntries}

RawIssues ==
    {[key |-> "k1", rule |-> "r1", severity |-> "BLOCKER",
      component |-> <<"p", ":", "a">>, line |-> 2, message |-> <<"<", "s", ">">>],
     [key |-> "k2", rule |-> "r2", severity |-> "MINOR",
      component |-> <<"p", ":", "c">>, line |-> 1, message |-> <<"a", "&", "b">>],
     [key |-> "k3", rule |-> "r1",
      component |-> <<"p", ":", "b">>, message |-> <<"m">>],
     [key |-> "k4", rule |-> "r2", severity |-> "MAJOR",
      component |-> <<"p", ":", "u">>, line |-> 3, message |-> <<"m">>],
     [key |-> "k5", rule |-> "r1", severity |-> "INFO",
      component |-> <<"p", ":", "p", ":", "a">>, line |-> 9, message |-> <<"m">>],
     [key |-> "k6", rule |-> "r2", severity |-> "BLOCKER",
      line |-> 1, message |-> <<"m">>],
     [key |-> "k7", rule |-> "r1", severity |-> "CRITICAL",
      component |-> <<"b">>, line |-> 1, message |-> <<"m">>]}

IssuesResponses ==
    {EmptyDict}
    \cup {[issues |-> l, total |-> Len(l)] : l \in SeqsUpTo(RawIssues, MaxIssues)}

\* how a fetch fails: raise_for_status on a non-2xx response, or the
\* transport (no connection); both are requests.exceptions.RequestException
FetchFailures == {"HTTPError", "ConnectionError"}

-----------------------------------------------------------------------------
(* main() *)

NotWritten == [written |-> FALSE]
Written(content) == [written |-> TRUE, content |-> content]

\* --project is declared with required=True
ProjectRequired == TRUE

\* the status argparse exits with when a required argument is missing
ArgparseErrorStatus == 2

\* args.project or os.getenv("SONAR_PROJECT_KEY")
ResolveProjectKey(flag, env) ==
    IF ~IsNone(flag) /\ Len(flag[1]) > 0 THEN flag ELSE env

\* bool(project_key)
KeyResolved(key) == ~IsNone(key) /\ Len(key[1]) > 0

Exit(status, message) ==
    /\ pc' = "exited"
    /\ exit_status' = status
    /\ console' = Append(console, message)

\* the except clauses of main: both print an error and sys.exit(1)
\* mutant: the handler reports the error and lets the process end normally
ExceptRequestException_NoExit(failure, endpoint) ==
    Exit(0, [section |-> "error", kind |-> "fetch", cause |-> failure,
             endpoint |-> endpoint])

\* (the message of a RequestException names the failure and the URL)
ExceptRequestException(failure, endpoint) ==
    Exit(1, [section |-> "error", kind |-> "fetch", cause |-> failure,
             endpoint |-> endpoint])

\* mutant: the handler reports the error and lets the process end normally
ExceptException_NoExit == Exit(0, [section |-> "error", kind |-> "unexpected"])

ExceptException == Exit(1, [section |-> "error", kind |-> "unexpected"])

Request(endpoint) == [endpoint |-> endpoint, project |-> project_key[1]]

\* parser.parse_args() up to the project-key check
ParseArgs ==
    /\ pc = "parse_args"
    /\ steps' = Append(steps, "parse_args")
    /\ \/ /\ ProjectRequired /\ IsNone(args_project)
          /\ Exit(ArgparseErrorStatus, [section |-> "error", kind |-> "usage"])
          /\ UNCHANGED project_key
       \/ /\ ~(ProjectRequired /\ IsNone(args_project))
          /\ ~KeyResolved(ResolveProjectKey(args_project, env_project_key))
          /\ project_key' = ResolveProjectKey(args_project, env_project_key)
          /\ Exit(1, [section |-> "error", kind |-> "config"])
       \/ /\ ~(ProjectRequired /\ IsNone(args_project))
          /\ KeyResolved(ResolveProjectKey(args_project, env_project_key))
          /\ project_key' = ResolveProjectKey(args_project, env_project_key)
          /\ pc' = "fetch_qg"
          /\ UNCHANGED <<exit_status, console>>
    /\ UNCHANGED <<requests_issued, args_project, env_project_key, fs, qg_data,
                   measures_data, issues_data, report_data, json_file, html_file,
                   call, ret>>

\* qg_data = fetch_quality_gate_status(host, auth_tuple, project_key)
FetchQualityGate ==
    /\ pc = "fetch_qg"
    /\ steps' = Append(steps, "fetch_qg")
    /\ requests_issued' = Append(requests_issued, Request("qualitygates/project_status"))
    /\ \/ /\ \E body \in QualityGateResponses : qg_data' = Some(body)
          /\ pc' = "fetch_measures"
          /\ UNCHANGED <<exit_status, console>>
       \/ /\ \E failure \in FetchFailures :
                ExceptRequestException(failure, "qualitygates/project_status")
          /\ UNCHANGED qg_data
    /\ UNCHANGED <<args_project, env_project_key, project_key, fs, measures_data,
                   issues_data, report_data, json_file, html_file, call, ret>>

\* measures_data = fetch_measures(host, auth_tuple, project_key)
FetchMeasures ==
    /\ pc = "fetch_measures"
    /\ steps' = Append(steps, "fetch_measures")
    /\ requests_issued' = Append(requests_issued, Request("measures/component"))
    /\ \/ /\ \E body \in MeasuresResponses : measures_data' = Some(body)
          /\ pc' = "fetch_issues"
          /\ UNCHANGED <<exit_status, console>>
       \/ /\ \E failure \in FetchFailures :
                ExceptRequestException(failure, "measures/component")
          /\ UNCHANGED measures_data
    /\ UNCHANGED <<args_project, env_project_key, project_key, fs, qg_data,
                   issues_data, report_data, json_file, html_file, call, ret>>

\* issues_data = fetch_issues(host, auth_tuple, project_key)
FetchIssues ==
    /\ pc = "fetch_issues"
    /\ steps' = Append(steps, "fetch_issues")
    /\ requests_issued' = Append(requests_issued, Request("issues/search"))
    /\ \/ /\ \E body \in IssuesResponses : issues_data' = Some(body)
          /\ pc' = "aggregate"
          /\ UNCHANGED <<exit_status, console>>
       \/ /\ \E failure \in FetchFailures :
                ExceptRequestException(failure, "issues/search")
          /\ UNCHANGED issues_data
    /\ UNCHANGED <<args_project, env_project_key, project_key, fs, qg_data,
                   measures_data, report_data, json_file, html_file, call, ret>>

\* "Process measures" to "Compile report data": an exception of the int()
\* casts reaches except Exception
Aggregate ==
    /\ pc = "aggregate"
    /\ steps' = Append(steps, "aggregate")
    /\ LET measures == ProcessMeasures(measures_data[1])
       IN  \/ /\ measures.exc = ""
              /\ report_data' = Some(BuildReport(fs, project_key[1], qg_data[1],
                                                 measures.val, issues_data[1]))
              /\ pc' = "json"
              /\ UNCHANGED <<exit_status, console>>
           \/ /\ measures.exc # ""
              /\ ExceptException
              /\ UNCHANGED report_data
    /\ UNCHANGED <<requests_issued, args_project, env_project_key, project_key, fs,
                   qg_data, measures_data, issues_data, json_file, html_file,
                   call, ret>>

\* mutant: the HTML renderer is not called after the JSON renderer
GenerateJson_SkipsHtml ==
    /\ pc = "json"
    /\ steps' = Append(steps, "json")
    /\ json_file' = Written(report_data[1])
    /\ pc' = "slack"
    /\ UNCHANGED <<exit_status, console, requests_issued, args_project,
                   env_project_key, project_key, fs, qg_data, measures_data,
                   issues_data, report_data, html_file, call, ret>>

\* generate_json_report(report_data, args.json_output): open() may fail
GenerateJson ==
    /\ pc = "json"
    /\ steps' = Append(steps, "json")
    /\ \/ /\ json_file' = Written(report_data[1])
          /\ pc' = "html"
          /\ UNCHANGED <<exit_status, console>>
       \/ /\ ExceptException
          /\ UNCHANGED json_file
    /\ UNCHANGED <<requests_issued, args_project, env_project_key, project_key, fs,
                   qg_data, measures_data, issues_data, report_data, html_file,
                   call, ret>>

\* generate_html_report(report_data, args.html_output): open() may fail
GenerateHtml ==
    /\ pc = "html"
    /\ steps' = Append(steps, "html")
    /\ \/ /\ html_file' = Written(HtmlDocument(report_data[1]))
          /\ pc' = "slack"
          /\ UNCHANGED <<exit_status, console>>
       \/ /\ ExceptException
          /\ UNCHANGED html_file
    /\ UNCHANGED <<requests_issued, args_project, env_project_key, project_key, fs,
                   qg_data, measures_data, issues_data, report_data, json_file,
                   call, ret>>

\* print_slack_summary(report_data)
PrintSlackSummary ==
    /\ pc = "slack"
    /\ steps' = Append(steps, "slack")
    /\ console' = Append(console, SlackSummary(report_data[1]))
    /\ pc' = "email"
    /\ UNCHANGED <<exit_status, requests_issued, args_project, env_project_key,
                   project_key, fs, qg_data, measures_data, issues_data,
                   report_data, json_file, html_file, call, ret>>

\* print_email_summary(report_data)
PrintEmailSummary ==
    /\ pc = "email"
    /\ steps' = Append(steps, "email")
    /\ console' = Append(console, EmailSummary(report_data[1]))
    /\ pc' = "detailed"
    /\ UNCHANGED <<exit_status, requests_issued, args_project, env_project_key,
                   project_key, fs, qg_data, measures_data, issues_data,
                   report_data, json_file, html_file, call, ret>>

\* print_detailed_issues(report_data), the success line, and the return of
\* main(): the process exits with status 0
PrintDetailedIssues ==
    /\ pc = "detailed"
    /\ steps' = Append(steps, "detailed")
    /\ console' = console \o DetailedListing(report_data[1])
                          \o <<[section |-> "success"]>>
    /\ pc' = "exited"
    /\ exit_status' = 0
    /\ UNCHANGED <<requests_issued, args_project, env_project_key,
                   project_key, fs, qg_data, measures_data, issues_data,
                   report_data, json_file, html_file, call, ret>>

NoCall == [fn |-> "none"]

Init ==
    /\ pc = "parse_args"
    /\ exit_status = NotExited
    /\ steps = <<>>
    /\ requests_issued = <<>>
    /\ args_project \in ArgsProjectValues
    /\ env_project_key \in EnvProjectKeyValues
    /\ project_key = None
    /\ fs = RunFilesystem
    /\ qg_data = None
    /\ measures_data = None
    /\ issues_data = None
    /\ report_data = None
    /\ json_file = NotWritten
    /\ html_file = NotWritten
    /\ console = <<>>
    /\ call = NoCall
    /\ ret = None

Next ==
    \/ ParseArgs
    \/ FetchQualityGate
    \/ FetchMeasures
    \/ FetchIssues
    \/ Aggregate
    \/ GenerateJson
    \/ GenerateHtml
    \/ PrintSlackSummary
    \/ PrintEmailSummary
    \/ PrintDetailedIssues

Spec == Init /\ [][Next]_vars

-----------------------------------------------------------------------------
(* get_code_context on its own: one call on a file of every length up to     *)
(* MaxFileLines (under the fixture root, only under the working directory,   *)
(* unreadable, or missing) and every target line up to MaxLine               *)

LineText(i) ==
    CASE i % 3 = 0 -> <<"<", "\n">>
      [] i % 3 = 1 -> <<"x", "\n">>
      [] OTHER -> <<"&", "\n">>

FileOfLength(n) == [i \in 1..n |-> LineText(i)]

NoFiles == [p \in {} |-> MissingFile]

CtxPath == <<"f">>

CtxFilesystems ==
    {[fixture |-> (CtxPath :> ReadableFile(FileOfLength(n))), cwd |-> NoFiles] :
        n \in 0..MaxFileLines}
    \cup {[fixture |-> NoFiles, cwd |-> (CtxPath :> ReadableFile(FileOfLength(4)))],
          [fixture |-> (CtxPath :> UnreadableFile), cwd |-> NoFiles],
          [fixture |-> NoFiles, cwd |-> NoFiles]}

InitCtx ==
    /\ pc = "unit"
    /\ exit_status = NotExited
    /\ steps = <<>>
    /\ requests_issued = <<>>
    /\ args_project = None
    /\ env_project_key = None
    /\ project_key = None
    /\ fs \in CtxFilesystems
    /\ qg_data = None
    /\ measures_data = None
    /\ issues_data = None
    /\ report_data = None
    /\ json_file = NotWritten
    /\ html_file = NotWritten
    /\ console = <<>>
    /\ call \in {[fn |-> "get_code_context", file_path |-> CtxPath, line_number |-> l] :
                    l \in 1..MaxLine}
    /\ ret = None

CallGetCodeContext ==
    /\ call.fn = "get_code_context"
    /\ IsNone(ret)
    /\ ret' = Some(get_code_context(fs, call.file_path, call.line_number, ContextLines))
    /\ UNCHANGED <<pc, exit_status, steps, requests_issued, args_project,
                   env_project_key, project_key, fs, qg_data, measures_data,
                   issues_data, report_data, json_file, html_file, console, call>>

NextCtx == CallGetCodeContext

SpecCtx == InitCtx /\ [][NextCtx]_vars

-----------------------------------------------------------------------------
(* Vocabulary of the properties *)

\* the steps of a run, in the order main() takes them
RunOrder ==
    <<"parse_args", "fetch_qg", "fetch_measures", "fetch_issues", "aggregate",
      "json", "html", "slack", "email", "detailed">>

IsPrefix(s, t) == Len(s) <= Len(t) /\ s = SubSeq(t, 1, Len(s))

\* the sections of the given kind on the console
Sections(kind) == {i \in 1..Len(console) : console[i].section = kind}

\* the error messages printed for a failed fetch
FetchErrors == {i \in Sections("error") : console[i].kind = "fetch"}

Endpoints == <<"qualitygates/project_status", "measures/component", "issues/search">>

NothingRendered ==
    /\ json_file = NotWritten
    /\ html_file = NotWritten
    /\ Sections("slack") = {} /\ Sections("email") = {} /\ Sections("detailed") = {}

-----------------------------------------------------------------------------
(* C1: when one of the three fetches fails (non-2xx response or transport    *)
(* error) the run exits with status 1; the failed request is the last one    *)
(* issued and was issued once (no retry, no later fetch), aggregation has    *)
(* not run, no renderer has run, and neither output file is written.         *)
C1_FetchFailureAborts ==
    FetchErrors # {} =>
        /\ pc = "exited"
        /\ exit_status = 1
        /\ \A i \in FetchErrors :
              /\ requests_issued[Len(requests_issued)].endpoint = console[i].endpoint
              /\ Cardinality({j \in 1..Len(requests_issued) :
                     requests_issued[j].endpoint = console[i].endpoint}) = 1
        /\ IsPrefix([j \in 1..Len(requests_issued) |-> requests_issued[j].endpoint],
                    Endpoints)
        /\ \A j \in 1..Len(steps) :
              steps[j] \notin {"aggregate", "json", "html", "slack", "email", "detailed"}
        /\ report_data = None
        /\ NothingRendered

\* the issues fetch failed after two successful fetches
C1_Witness ==
    /\ pc = "exited"
    /\ \E i \in FetchErrors :
          console[i].endpoint = "issues/search" /\ console[i].cause = "HTTPError"
    /\ ~IsNone(qg_data) /\ ~IsNone(measures_data) /\ IsNone(issues_data)

-----------------------------------------------------------------------------
(* C2: the steps of every run are taken in the fixed order quality-gate      *)
(* fetch, measures fetch, issues fetch, aggregation, JSON, HTML, chat        *)
(* summary, email summary, detailed listing, each at most once; nothing is   *)
(* rendered before the three responses are in and the Report is built; each  *)
(* renderer's output is there only after the one before it; and a run that   *)
(* completes every step exits with status 0 (and only such a run does).      *)
C2_FixedOrder ==
    /\ IsPrefix(steps, RunOrder)
    /\ pc # "exited" => pc = RunOrder[Len(steps) + 1]
    /\ ~NothingRendered =>
          /\ ~IsNone(qg_data) /\ ~IsNone(measures_data) /\ ~IsNone(issues_data)
          /\ ~IsNone(report_data)
          /\ Len(requests_issued) = Len(Endpoints)
    /\ ~IsNone(report_data) =>
          ~IsNone(qg_data) /\ ~IsNone(measures_data) /\ ~IsNone(issues_data)
    /\ html_file.written => json_file.written
    /\ Sections("slack") # {} => html_file.written
    /\ Sections("email") # {} => Sections("slack") # {}
    /\ Sections("detailed") # {} => Sections("email") # {}
    /\ Cardinality(Sections("slack")) <= 1 /\ Cardinality(Sections("email")) <= 1
    /\ Cardinality(Sections("detailed")) <= 1
    /\ (pc = "exited" /\ steps = RunOrder) => exit_status = 0
    /\ exit_status = 0 =>
          /\ steps = RunOrder
          /\ json_file.written /\ html_file.written
          /\ Sections("slack") # {} /\ Sections("email") # {}

\* a complete run over a non-empty issue list
C2_Witness ==
    /\ exit_status = 0
    /\ steps = RunOrder
    /\ Sections("detailed") # {}

-----------------------------------------------------------------------------
(* C3: whenever no project key is resolvable (no --project value and no      *)
(* SONAR_PROJECT_KEY), the run ends with exit status exactly 1, before any   *)
(* request is issued and without writing either file.                        *)
NoKeyFromAnySource ==
    /\ IsNone(args_project) \/ Len(args_project[1]) = 0
    /\ IsNone(env_project_key) \/ Len(env_project_key[1]) = 0

C3_Claimed ==
    (NoKeyFromAnySource /\ pc # "parse_args") =>
        /\ pc = "exited"
        /\ exit_status = 1
        /\ requests_issued = <<>>
        /\ NothingRendered

-----------------------------------------------------------------------------
(* C4: when --project is not given and SONAR_PROJECT_KEY holds a non-empty   *)
(* key, configuration resolution succeeds with that key and the run goes on  *)
(* to the fetches, which use it.                                             *)
C4_Claimed ==
    (IsNone(args_project) /\ KeyResolved(env_project_key) /\ pc # "parse_args") =>
        /\ project_key = env_project_key
        /\ Len(requests_issued) >= 1
        /\ \A j \in 1..Len(requests_issued) :
              requests_issued[j].project = env_project_key[1]
        /\ exit_status # ArgparseErrorStatus

-----------------------------------------------------------------------------
(* C5: every issue message embedded in the HTML document is HTML-escaped     *)
(* ('&', '<', '>' replaced by entities), as the code-context lines are: no   *)
(* '<' or '>' of a message reaches the document.                             *)
C5_Claimed ==
    html_file.written =>
        \A i \in 1..Len(html_file.content.issues) :
            LET embedded == html_file.content.issues[i].message
            IN  /\ embedded = HtmlEscape(report_data[1].issues.detailed[i].message)
                /\ \A j \in 1..Len(embedded) : embedded[j] \notin {"<", ">"}

-----------------------------------------------------------------------------
(* Vocabulary of the properties about the Report *)

Ran(step) == \E j \in 1..Len(steps) : steps[j] = step

\* the issue entries of the fetched page
RawPage == Get(issues_data[1], "issues", <<>>)

RECURSIVE SumOver(_, _)
SumOver(f, S) ==
    IF S = {} THEN 0
    ELSE LET x == CHOOSE x \in S : TRUE IN f[x] + SumOver(f, S \ {x})

\* the severity a raw entry states, "UNKNOWN" when it states none
StatedSeverity(raw) == IF "severity" \in DOMAIN raw THEN raw["severity"] ELSE "UNKNOWN"

\* the raw entry has a line number the Aggregator acts on
HasLine(raw) == "line" \in DOMAIN raw /\ raw["line"] # 0

OnDisk(path) == Lookup(fs.fixture, path).exists \/ Lookup(fs.cwd, path).exists

\* the file the loader opens for a path that is on disk
ResolvedFile(path) ==
    IF Lookup(fs.fixture, path).exists THEN Lookup(fs.fixture, path)
    ELSE Lookup(fs.cwd, path)

IsWindow(cc) == "context" \in DOMAIN cc /\ "error" \notin DOMAIN cc
IsErrorForm(cc) == DOMAIN cc = {"error"} /\ Len(cc["error"]) > 0

-----------------------------------------------------------------------------
(* C6: after aggregation the values of severity_counts sum to the number of  *)
(* issue entries in the fetched page, which is the length of detailed; each  *)
(* severity's count is the number of entries stating it, and the entries     *)
(* stating no severity are counted under "UNKNOWN".                          *)
C6_CountsSumToPage ==
    ~IsNone(report_data) =>
        LET counts == report_data[1].issues.severity_counts
            detailed == report_data[1].issues.detailed
        IN  /\ SumOver(counts, DOMAIN counts) = Len(RawPage)
            /\ Len(detailed) = Len(RawPage)
            /\ \A sev \in DOMAIN counts \cup {"UNKNOWN"} :
                  Get(counts, sev, 0) =
                      Cardinality({i \in 1..Len(RawPage) : StatedSeverity(RawPage[i]) = sev})

\* two entries of the same severity, and an entry without one
C6_Witness ==
    /\ ~IsNone(report_data)
    /\ Len(RawPage) = MaxIssues
    /\ Get(report_data[1].issues.severity_counts, "UNKNOWN", 0) >= 1
    /\ \E sev \in DOMAIN report_data[1].issues.severity_counts :
          report_data[1].issues.severity_counts[sev] >= 2

-----------------------------------------------------------------------------
(* C7: for a readable file of N lines and a target line L, 1 <= L <= N,      *)
(* get_code_context returns the lines max(1, L-3) .. min(N, L+3), ascending  *)
(* and consecutive, with start_line and end_line those two numbers, each     *)
(* entry carrying its line of the file, and exactly one entry, the one with  *)
(* line = L, marked is_issue_line.                                           *)
C7_WindowAroundLine ==
    (call.fn = "get_code_context" /\ ~IsNone(ret)) =>
        LET f == ResolvedFile(call.file_path)
            N == Len(f.lines)
            L == call.line_number
            lo == Max(1, L - 3)
            hi == Min(N, L + 3)
            r == ret[1]
        IN  (f.exists /\ f.readable /\ 1 <= L /\ L <= N) =>
                /\ IsWindow(r)
                /\ Len(r.context) = hi - lo + 1
                /\ \A j \in 1..Len(r.context) :
                      /\ r.context[j].line = lo + j - 1
                      /\ r.context[j].code = RStripNewline(f.lines[lo + j - 1])
                /\ r.start_line = lo /\ r.start_line >= 1
                /\ r.end_line = hi /\ r.end_line <= N
                /\ r.issue_line = L
                /\ Cardinality({j \in 1..Len(r.context) : r.context[j].is_issue_line}) = 1
                /\ \A j \in 1..Len(r.context) :
                      r.context[j].is_issue_line <=> r.context[j].line = L

\* a window clipped on neither side
C7_Witness ==
    /\ call.fn = "get_code_context" /\ ~IsNone(ret)
    /\ IsWindow(ret[1])
    /\ Len(ret[1].context) = 2 * ContextLines + 1
    /\ ret[1].start_line > 1
    /\ ret[1].end_line < Len(ResolvedFile(call.file_path).lines)

-----------------------------------------------------------------------------
(* C8: a metric whose key is missing from the measures response (no          *)
(* component, no or an empty measures list, no entry for it) or whose value  *)
(* is absent, empty or not parseable by float() comes out as 0.0 (coverage,  *)
(* duplicated_lines_density) or 0 (bugs, vulnerabilities, code_smells), and  *)
(* such a metric never makes extract_metric_value raise or the run abort.    *)
FiveMetrics ==
    {"coverage", "bugs", "vulnerabilities", "code_smells", "duplicated_lines_density"}

IntMetrics == {"bugs", "vulnerabilities", "code_smells"}

MeasureList(data) ==
    IF "component" \in DOMAIN data /\ "measures" \in DOMAIN data["component"]
    THEN data["component"]["measures"]
    ELSE <<>>

EntriesFor(data, m) ==
    {i \in 1..Len(MeasureList(data)) :
        /\ "metric" \in DOMAIN MeasureList(data)[i]
        /\ MeasureList(data)[i]["metric"] = m}

FirstEntryFor(data, m) ==
    MeasureList(data)[CHOOSE i \in EntriesFor(data, m) :
                          \A k \in EntriesFor(data, m) : i <= k]

EmptyOrUnparseable(entry) ==
    \/ "value" \notin DOMAIN entry
    \/ entry["value"].t = "str" /\ Len(entry["value"].s) = 0
    \/ FloatOf(entry["value"]).exc # ""

MissingOrUnparseable(data, m) ==
    \/ EntriesFor(data, m) = {}
    \/ EmptyOrUnparseable(FirstEntryFor(data, m))

C8_MissingMetricIsZero ==
    Ran("aggregate") =>
        LET data == measures_data[1]
        IN  /\ \A m \in FiveMetrics :
                  MissingOrUnparseable(data, m) =>
                      extract_metric_value(data, m) = Returned(Float(0))
            /\ ~IsNone(report_data) =>
                  \A m \in FiveMetrics :
                      MissingOrUnparseable(data, m) =>
                          IF m \in IntMetrics
                          THEN report_data[1].measures[m] = 0
                          ELSE report_data[1].measures[m] = Float(0)
            /\ IsNone(report_data) =>
                  \E m \in IntMetrics : ~MissingOrUnparseable(data, m)

\* a report built from a response with an empty coverage value and an
\* unparseable bugs value (every other metric missing)
C8_Witness ==
    /\ ~IsNone(report_data)
    /\ MeasureList(measures_data[1]) =
           <<[metric |-> "coverage", value |-> JStr(<<>>)],
             [metric |-> "bugs", value |-> JStr(<<"x">>)]>>
    /\ report_data[1].measures.bugs = 0
    /\ report_data[1].measures.coverage = Float(0)

-----------------------------------------------------------------------------
(* C9: a context-loading failure never aborts the report.  Aggregation       *)
(* completes whatever the files do; an issue with a line number whose file   *)
(* is neither under the fixture root nor under the working directory gets    *)
(* codeContext {"error": "File not found: <path>"} and is still in detailed; *)
(* the other issues get their own context; and once both files are written   *)
(* the run prints all three console sections, with a warning for that issue  *)
(* and the code block for the others, and exits 0.                           *)
MissingFileIssue(i) ==
    /\ HasLine(RawPage[i])
    /\ Len(report_data[1].issues.detailed[i].component) > 0
    /\ ~OnDisk(report_data[1].issues.detailed[i].component)

C9_ContextFailureNotFatal ==
    /\ (Ran("aggregate") /\ ProcessMeasures(measures_data[1]).exc = "") =>
          ~IsNone(report_data)
    /\ ~IsNone(report_data) =>
          LET detailed == report_data[1].issues.detailed
          IN  /\ Len(detailed) = Len(RawPage)
              /\ \A i \in 1..Len(detailed) :
                    /\ detailed[i].key = RawPage[i]["key"]
                    /\ MissingFileIssue(i) =>
                          detailed[i].codeContext =
                              [error |-> <<"File not found: ">> \o detailed[i].component]
                    /\ (~MissingFileIssue(i) /\ HasLine(RawPage[i])
                          /\ Len(detailed[i].component) > 0
                          /\ ResolvedFile(detailed[i].component).readable) =>
                          /\ IsWindow(detailed[i].codeContext)
                          /\ detailed[i].codeContext.issue_line = RawPage[i]["line"]
    /\ (pc = "exited" /\ json_file.written /\ html_file.written) =>
          /\ exit_status = 0
          /\ Sections("slack") # {} /\ Sections("email") # {}
          /\ Len(RawPage) > 0 => Sections("detailed") # {}
          /\ \A s \in Sections("detailed") :
                /\ Len(console[s].issues) = Len(RawPage)
                /\ \A i \in 1..Len(console[s].issues) :
                      /\ MissingFileIssue(i) =>
                            /\ console[s].issues[i].context.kind = "warning"
                            /\ html_file.content.issues[i].code_block = None
                      /\ IsWindow(report_data[1].issues.detailed[i].codeContext) =>
                            /\ console[s].issues[i].context.kind = "code"
                            /\ html_file.content.issues[i].code_block # None

\* a completed run over a page with a missing-file issue and an issue whose
\* context loaded
C9_Witness ==
    /\ exit_status = 0
    /\ \E i, j \in 1..Len(RawPage) :
          /\ MissingFileIssue(i)
          /\ report_data[1].issues.detailed[i].codeContext =
                 [error |-> <<"File not found: ", "c">>]
          /\ IsWindow(report_data[1].issues.detailed[j].codeContext)
          /\ Len(report_data[1].issues.detailed[j].codeContext.context) > 0

-----------------------------------------------------------------------------
(* C10 as claimed: codeContext is a success window exactly when the issue    *)
(* has a line number and its file is on disk, and is the error form (a       *)
(* record carrying an 'error' string) in every other case, an issue with no  *)
(* line number included.                                                     *)
C10_Claimed ==
    ~IsNone(report_data) =>
        \A i \in 1..Len(RawPage) :
            LET issue == report_data[1].issues.detailed[i]
            IN  /\ IsWindow(issue.codeContext) <=>
                      ("line" \in DOMAIN RawPage[i] /\ OnDisk(issue.component))
                /\ ~IsWindow(issue.codeContext) => IsErrorForm(issue.codeContext)

(* C10 as amended: codeContext is a success window exactly when the issue    *)
(* has a non-zero line number and a non-empty component and its file is on   *)
(* disk and readable; it is the error form exactly when line number and      *)
(* component are there but the file is missing or unreadable; and it is the  *)
(* empty record exactly when the line number or the component is missing.    *)
LoaderCalled(i) ==
    HasLine(RawPage[i]) /\ Len(report_data[1].issues.detailed[i].component) > 0

Loadable(path) == OnDisk(path) /\ ResolvedFile(path).readable

C10_ContextForms ==
    ~IsNone(report_data) =>
        \A i \in 1..Len(RawPage) :
            LET issue == report_data[1].issues.detailed[i]
            IN  /\ IsWindow(issue.codeContext) <=>
                      (LoaderCalled(i) /\ Loadable(issue.component))
                /\ IsErrorForm(issue.codeContext) <=>
                      (LoaderCalled(i) /\ ~Loadable(issue.component))
                /\ issue.codeContext = EmptyDict <=> ~LoaderCalled(i)

\* a report with an issue without a line number (empty codeContext) and an
\* issue whose file is unreadable (error form)
C10_Witness ==
    /\ ~IsNone(report_data)
    /\ \E i, j \in 1..Len(RawPage) :
          /\ "line" \notin DOMAIN RawPage[i]
          /\ report_data[1].issues.detailed[i].codeContext = EmptyDict
          /\ OnDisk(report_data[1].issues.detailed[j].component)
          /\ IsErrorForm(report_data[1].issues.detailed[j].codeContext)

-----------------------------------------------------------------------------
(* C11: when the quality-gate response carries no status (no projectStatus,  *)
(* or a projectStatus without status), the status is "UNKNOWN" in every      *)
(* output of the run: the Report and the JSON file, the HTML banner (with    *)
(* the gray colour), the chat summary (with the default question-mark        *)
(* glyph) and the email summary; and absent conditions become the empty      *)
(* sequence.                                                                 *)
NoStatus(qg) ==
    "projectStatus" \notin DOMAIN qg \/ "status" \notin DOMAIN qg["projectStatus"]

NoConditions(qg) ==
    "projectStatus" \notin DOMAIN qg \/ "conditions" \notin DOMAIN qg["projectStatus"]

Gray == "#9E9E9E"

C11_UnknownEverywhere ==
    (~IsNone(qg_data) /\ NoStatus(qg_data[1])) =>
        /\ ~IsNone(report_data) =>
              /\ report_data[1].quality_gate.status = "UNKNOWN"
              /\ NoConditions(qg_data[1]) => report_data[1].quality_gate.conditions = <<>>
        /\ json_file.written => json_file.content.quality_gate.status = "UNKNOWN"
        /\ html_file.written =>
              /\ html_file.content.status = "UNKNOWN"
              /\ html_file.content.status_color = Gray
        /\ \A i \in Sections("slack") :
              console[i].status = "UNKNOWN" /\ console[i].glyph = "question"
        /\ \A i \in Sections("email") : console[i].status = "UNKNOWN"

\* a completed run on a response with no projectStatus at all
C11_Witness ==
    /\ exit_status = 0
    /\ ~IsNone(qg_data) /\ "projectStatus" \notin DOMAIN qg_data[1]
    /\ Sections("slack") # {} /\ Sections("email") # {}
    /\ html_file.written /\ json_file.written

-----------------------------------------------------------------------------
(* Vocabulary of C12: the lines a summary should print for the severities    *)
(* from position i of the fixed order on, all of them or the non-zero ones   *)
FixedOrder == <<"BLOCKER", "CRITICAL", "MAJOR", "MINOR", "INFO">>

CountOf(counts, sev) == IF sev \in DOMAIN counts THEN counts[sev] ELSE 0

RECURSIVE LinesFrom(_, _, _)
LinesFrom(counts, i, only_non_zero) ==
    IF i > Len(FixedOrder) THEN <<>>
    ELSE (IF only_non_zero /\ CountOf(counts, FixedOrder[i]) = 0
          THEN <<>>
          ELSE << <<FixedOrder[i], CountOf(counts, FixedOrder[i])>> >>)
         \o LinesFrom(counts, i + 1, only_non_zero)

(* C12 as claimed: the chat summary and the email summary both list the      *)
(* severity counts in the order BLOCKER, CRITICAL, MAJOR, MINOR, INFO and    *)
(* print a line only for a severity whose count is non-zero.                 *)
C12_Claimed ==
    ~IsNone(report_data) =>
        LET counts == report_data[1].issues.severity_counts
        IN  /\ \A i \in Sections("slack") :
                  console[i].severity_lines = LinesFrom(counts, 1, TRUE)
            /\ \A i \in Sections("email") :
                  console[i].severity_lines = LinesFrom(counts, 1, TRUE)

(* C12 as amended: both summaries list the severities in the order BLOCKER,  *)
(* CRITICAL, MAJOR, MINOR, INFO; the chat summary prints a line only for a   *)
(* severity whose count is non-zero, while the email summary prints a line   *)
(* for each of the five, with 0 for a severity that is missing from          *)
(* severity_counts.                                                          *)
C12_SummaryLines ==
    ~IsNone(report_data) =>
        LET counts == report_data[1].issues.severity_counts
        IN  /\ \A i \in Sections("slack") :
                  /\ console[i].severity_lines = LinesFrom(counts, 1, TRUE)
                  /\ \A j \in 1..Len(console[i].severity_lines) :
                        console[i].severity_lines[j][2] > 0
            /\ \A i \in Sections("email") :
                  /\ console[i].severity_lines = LinesFrom(counts, 1, FALSE)
                  /\ Len(console[i].severity_lines) = Len(FixedOrder)

\* both summaries printed for a page with a BLOCKER and a MINOR issue: two
\* lines in the chat summary, five in the email summary
C12_Witness ==
    /\ ~IsNone(report_data)
    /\ DOMAIN report_data[1].issues.severity_counts = {"BLOCKER", "MINOR"}
    /\ \E i \in Sections("slack") :
          console[i].severity_lines = << <<"BLOCKER", 1>>, <<"MINOR", 1>> >>
    /\ \E i \in Sections("email") :
          console[i].severity_lines =
              << <<"BLOCKER", 1>>, <<"CRITICAL", 0>>, <<"MAJOR", 0>>,
                 <<"MINOR", 1>>, <<"INFO", 0>> >>

-----------------------------------------------------------------------------
(* C13: an issue's component is the raw component with only the leading      *)
(* "<projectKey>:" removed: a raw component that starts with the prefix      *)
(* loses that one occurrence, later occurrences of "<projectKey>:" stay,     *)
(* and a raw component that does not start with the prefix is unchanged.     *)
RawComponent(raw) == IF "component" \in DOMAIN raw THEN raw["component"] ELSE <<>>

WithoutLeadingPrefix(component, prefix) ==
    IF Len(component) >= Len(prefix) /\ SubSeq(component, 1, Len(prefix)) = prefix
    THEN SubSeq(component, Len(prefix) + 1, Len(component))
    ELSE component

C13_Claimed ==
    ~IsNone(report_data) =>
        \A i \in 1..Len(RawPage) :
            report_data[1].issues.detailed[i].component =
                WithoutLeadingPrefix(RawComponent(RawPage[i]), project_key[1] \o <<":">>)

-----------------------------------------------------------------------------
(* C14: for an issue whose codeContext is the error form, the detailed       *)
(* console listing and the HTML document both show a warning for that issue  *)
(* instead of a code block, and every other issue of the Report is rendered  *)
(* normally, with its code block when its context loaded.                    *)
HtmlShowsWarning(block) == "warning" \in DOMAIN block

C14_Claimed ==
    (~IsNone(report_data) /\ html_file.written) =>
        \A i \in 1..Len(report_data[1].issues.detailed) :
            LET cc == report_data[1].issues.detailed[i].codeContext
                block == html_file.content.issues[i]
            IN  /\ IsErrorForm(cc) =>
                      /\ block.code_block = None
                      /\ HtmlShowsWarning(block)
                      /\ \A s \in Sections("detailed") :
                            console[s].issues[i].context.kind = "warning"
                /\ IsWindow(cc) =>
                      /\ block.code_block # None
                      /\ \A s \in Sections("detailed") :
                            console[s].issues[i].context.kind = "code"

-----------------------------------------------------------------------------
(* C15: detailed holds exactly one record per raw issue entry, in the order  *)
(* of the response: the i-th record carries the key, rule, severity and      *)
(* message of the i-th entry; nothing is reordered, filtered or              *)
(* deduplicated, and entries without a line or a component are included.     *)
C15_DetailedMirrorsPage ==
    ~IsNone(report_data) =>
        LET detailed == report_data[1].issues.detailed
        IN  /\ Len(detailed) = Len(RawPage)
            /\ \A i \in 1..Len(RawPage) :
                  /\ detailed[i].key = RawPage[i]["key"]
                  /\ detailed[i].rule = RawPage[i]["rule"]
                  /\ detailed[i].severity = StatedSeverity(RawPage[i])
                  /\ detailed[i].message = RawPage[i]["message"]

\* a page of two different entries, the first without a component; and the
\* JSON file carrying them in that order
C15_Witness ==
    /\ ~IsNone(report_data)
    /\ json_file.written
    /\ Len(RawPage) = MaxIssues
    /\ "component" \notin DOMAIN RawPage[1]
    /\ RawPage[1]["key"] # RawPage[Len(RawPage)]["key"]
    /\ json_file.content.issues.detailed[1].key = RawPage[1]["key"]

\* a page holding the same entry (one without a line) twice
C15_DuplicatesKept ==
    /\ ~IsNone(report_data)
    /\ Len(RawPage) = MaxIssues
    /\ \A i \in 1..Len(RawPage) : RawPage[i] = RawPage[1] /\ "line" \notin DOMAIN RawPage[i]
    /\ Len(report_data[1].issues.detailed) = MaxIssues

-----------------------------------------------------------------------------
(* C16: for a readable file of N >= 1 lines and any positive target line L,  *)
(* L > N included, get_code_context returns a window record (no error form)  *)
(* clipped to the file: 1 <= start_line <= N, 1 <= end_line <= N, and every  *)
(* context entry's line within 1..N.                                         *)
C16_Claimed ==
    (call.fn = "get_code_context" /\ ~IsNone(ret)) =>
        LET f == ResolvedFile(call.file_path)
            N == Len(f.lines)
            r == ret[1]
        IN  (f.exists /\ f.readable /\ N >= 1 /\ call.line_number >= 1) =>
                /\ IsWindow(r)
                /\ 1 <= r.start_line /\ r.start_line <= N
                /\ 1 <= r.end_line /\ r.end_line <= N
                /\ \A j \in 1..Len(r.context) :
                      1 <= r.context[j].line /\ r.context[j].line <= N

-----------------------------------------------------------------------------
(* C17: a file-write failure in a renderer is fatal.  If the JSON file       *)
(* cannot be written, the HTML renderer and the three textual renderers do   *)
(* not run and the run exits 1; if the JSON file is written and the HTML     *)
(* file cannot be, none of the textual renderers runs and the run exits 1;   *)
(* the run never exits 0 unless both files were written.                     *)
NoTextualRenderer ==
    /\ ~Ran("slack") /\ ~Ran("email") /\ ~Ran("detailed")
    /\ Sections("slack") = {} /\ Sections("email") = {} /\ Sections("detailed") = {}

C17_WriteFailureFatal ==
    /\ (Ran("json") /\ ~json_file.written) =>
          /\ pc = "exited" /\ exit_status = 1
          /\ ~Ran("html") /\ ~html_file.written
          /\ NoTextualRenderer
    /\ (Ran("html") /\ ~html_file.written) =>
          /\ json_file.written
          /\ pc = "exited" /\ exit_status = 1
          /\ NoTextualRenderer
    /\ exit_status = 0 => json_file.written /\ html_file.written

\* the JSON file is written and writing the HTML file failed
C17_Witness ==
    /\ Ran("html") /\ json_file.written /\ ~html_file.written
    /\ pc = "exited"
    /\ \E i \in Sections("error") : console[i].kind = "unexpected"

====
